---- MODULE Spec2Model ----
(***************************************************************************)
(* Model of src/parta.c: a table of process control blocks (pid,           *)
(* burst_left, wait), the run_proc step, and the two schedulers fcfs_run   *)
(* and rr_run with rr_next.  Tables are functions over 0..plen-1 so that   *)
(* indices are the C indices.  One run_proc call is one step.              *)
(***************************************************************************)
EXTENDS Integers, Sequences, FiniteSets, TLC

VARIABLES
    heap,          \* whether malloc can obtain storage: "ok" or "exhausted"
    bursts0,       \* the int* bursts handed to init_procs (never written)
    procs,         \* the struct pcb array, 0..plen-1 -> [pid, burst_left, wait]
    alg,           \* which scheduler the caller invoked: "none", "fcfs", "rr"
    quantum,       \* rr_run's quantum parameter
    pc,            \* position of the program
    i,             \* fcfs_run's loop index
    current,       \* rr_run's current
    current_time,  \* current_time of the running scheduler
    ret,           \* value returned by the scheduler
    log,           \* history of run_proc calls: <<[current, amount]>>
    ub             \* undefined operations executed so far

vars == <<heap, bursts0, procs, alg, quantum, pc, i, current, current_time, ret, log, ub>>

\* ---------------------------------------------------------------- bounds
MaxLen == 3
MaxBurst == 4
MaxQuantum == 3
\* largest value a read outside the array is taken to yield
MaxGarbage == 1
\* cap on current_time while rr_run spins on an empty table
MaxOobTime == 2

\* ---------------------------------------------------------------- inputs
Tab(s) == [k \in 0..(Len(s) - 1) |-> s[k + 1]]

\* the burst arrays of the worked examples: [5, 3, 8] and [7]
ExampleBursts == {Tab(<<5, 3, 8>>), Tab(<<7>>)}

BurstArrays ==
    UNION {[0..(n - 1) -> 0..MaxBurst] : n \in 0..MaxLen} \cup ExampleBursts

Size(f) == Cardinality(DOMAIN f)

blen == Size(bursts0)
\* the callers pass the length of the array they built
plen == blen

RECURSIVE SumTo(_, _)
SumTo(f, n) == IF n <= 0 THEN 0 ELSE SumTo(f, n - 1) + f[n - 1]

Sum(f) == SumTo(f, Size(f))

Min(a, b) == IF a < b THEN a ELSE b

\* ---------------------------------------------------------------- parta.c
\* malloc as called on line 11 for n elements: NULL when storage cannot be
\* obtained; for a request of size 0 the C library returns either NULL or a
\* pointer that must not be dereferenced
malloc(n, h) ==
    IF h = "exhausted" THEN {"NULL"}
    ELSE IF n = 0 THEN {"NULL", "ptr"}
    ELSE {"ptr"}

\* variant of init_procs that numbers the pids from 1
init_procs_pid_from_one(bursts, n) ==
    [k \in 0..(n - 1) |-> [pid |-> k + 1, burst_left |-> bursts[k], wait |-> 0]]

\* init_procs, lines 16-20: the table built when malloc succeeds
init_procs(bursts, n) ==
    [k \in 0..(n - 1) |-> [pid |-> k, burst_left |-> bursts[k], wait |-> 0]]

\* variant of run_proc that omits the burst_left > 0 test of line 44
run_proc_charge_done(P, n, cur, amount) ==
    LET P1 == [P EXCEPT ![cur].burst_left = @ - amount]
    IN  [k \in DOMAIN P1 |->
            IF k \in 0..(n - 1) /\ k # cur
            THEN [P1[k] EXCEPT !.wait = @ + amount]
            ELSE P1[k]]

\* variant of run_proc that omits the i != current test of line 44
run_proc_charge_self(P, n, cur, amount) ==
    LET P1 == [P EXCEPT ![cur].burst_left = @ - amount]
    IN  [k \in DOMAIN P1 |->
            IF k \in 0..(n - 1) /\ P1[k].burst_left > 0
            THEN [P1[k] EXCEPT !.wait = @ + amount]
            ELSE P1[k]]

\* run_proc, lines 41-47
run_proc(P, n, cur, amount) ==
    LET P1 == [P EXCEPT ![cur].burst_left = @ - amount]
    IN  [k \in DOMAIN P1 |->
            IF k \in 0..(n - 1) /\ k # cur /\ P1[k].burst_left > 0
            THEN [P1[k] EXCEPT !.wait = @ + amount]
            ELSE P1[k]]

\* rr_next, lines 77-85: the while loop, entered with next and start
RECURSIVE rr_scan(_, _, _, _)
rr_scan(next, start, P, n) ==
    IF P[next].burst_left = 0
    THEN LET next2 == (next + 1) % n
         IN  IF next2 = start THEN -1 ELSE rr_scan(next2, start, P, n)
    ELSE next

\* variant of rr_next that stops at the end of the array instead of wrapping
rr_next_no_wrap(cur, P, n) ==
    LET next == cur + 1
    IN  IF next >= n THEN -1 ELSE rr_scan(next, next, P, n)

\* variant of rr_next that takes coming back to current as a full loop
rr_next_stop_at_current(cur, P, n) ==
    LET next == (cur + 1) % n
    IN  IF next = cur THEN -1 ELSE rr_scan(next, next, P, n)

\* rr_next, lines 73-74 then the loop (n > 0; n = 0 is RrNextDivZero)
rr_next(cur, P, n) ==
    LET next == (cur + 1) % n IN rr_scan(next, next, P, n)

\* variant of line 101 that always grants the whole quantum
rr_amount_whole_quantum(burst_left, q) == q

\* variant of line 101 that grants one unit less than the quantum
rr_amount_short_quantum(burst_left, q) == IF burst_left < q THEN burst_left ELSE q - 1

\* variant of line 101 that grants one unit whatever the quantum
rr_amount_one_tick(burst_left, q) == 1

\* rr_run, line 101
rr_amount(burst_left, q) == IF burst_left < q THEN burst_left ELSE q

LogEntry(cur, amount) == [current |-> cur, amount |-> amount]

\* fcfs_run, lines 56-64, as a function of the table: the loop from index
\* k on with current_time t, giving the final table and the value returned
RECURSIVE fcfs_from(_, _, _, _)
fcfs_from(P, n, k, t) ==
    IF k < n
    THEN LET burst == P[k].burst_left
         IN  fcfs_from(run_proc(P, n, k, burst), n, k + 1, t + burst)
    ELSE [procs |-> P, ret |-> t]

\* fcfs_run, lines 55-65
fcfs_run(P, n) == fcfs_from(P, n, 0, 0)

\* ---------------------------------------------------------------- actions
Init ==
    /\ heap \in {"ok", "exhausted"}
    /\ bursts0 \in BurstArrays
    /\ procs = << >>
    /\ alg = "none"
    /\ quantum = 0
    /\ pc = "init"
    /\ i = 0
    /\ current = 0
    /\ current_time = 0
    /\ ret = 0
    /\ log = << >>
    /\ ub = {}

\* init_procs, lines 11-22 with malloc returning a pointer
InitProcsOk ==
    /\ pc = "init"
    /\ "ptr" \in malloc(blen, heap)
    /\ procs' = init_procs(bursts0, blen)
    /\ pc' = "ready"
    /\ UNCHANGED <<heap, bursts0, alg, quantum, i, current, current_time, ret, log, ub>>

\* init_procs, lines 11-14 with malloc returning NULL
InitProcsNull ==
    /\ pc = "init"
    /\ "NULL" \in malloc(blen, heap)
    /\ pc' = "null"
    /\ UNCHANGED <<heap, bursts0, procs, alg, quantum, i, current, current_time, ret, log, ub>>

\* fcfs_run, line 56 and the loop initialisation of line 58
FcfsStart ==
    /\ pc = "ready"
    /\ alg' = "fcfs"
    /\ current_time' = 0
    /\ i' = 0
    /\ pc' = "fcfs_loop"
    /\ UNCHANGED <<heap, bursts0, procs, quantum, current, ret, log, ub>>

\* variant of fcfs_run's iteration that assigns current_time instead of adding
FcfsStepAssign ==
    /\ pc = "fcfs_loop"
    /\ i < plen
    /\ LET burst == procs[i].burst_left
       IN  /\ procs' = run_proc(procs, plen, i, burst)
           /\ log' = Append(log, LogEntry(i, burst))
           /\ current_time' = burst
    /\ i' = i + 1
    /\ UNCHANGED <<heap, bursts0, alg, quantum, pc, current, ret, ub>>

\* fcfs_run, lines 58-62: one iteration
FcfsStep ==
    /\ pc = "fcfs_loop"
    /\ i < plen
    /\ LET burst == procs[i].burst_left
       IN  /\ procs' = run_proc(procs, plen, i, burst)
           /\ log' = Append(log, LogEntry(i, burst))
           /\ current_time' = current_time + burst
    /\ i' = i + 1
    /\ UNCHANGED <<heap, bursts0, alg, quantum, pc, current, ret, ub>>

\* fcfs_run, lines 58 and 64: loop exit and return
FcfsReturn ==
    /\ pc = "fcfs_loop"
    /\ ~(i < plen)
    /\ ret' = current_time
    /\ pc' = "done"
    /\ UNCHANGED <<heap, bursts0, procs, alg, quantum, i, current, current_time, log, ub>>

\* rr_run, lines 94-95
RrStart ==
    /\ pc = "ready"
    /\ \E q \in 1..MaxQuantum : quantum' = q
    /\ alg' = "rr"
    /\ current_time' = 0
    /\ current' = 0
    /\ pc' = "rr_loop"
    /\ UNCHANGED <<heap, bursts0, procs, i, ret, log, ub>>

\* variant of rr_run's turn without the burst_left > 0 test of line 99
RrTurnNoTest ==
    /\ pc = "rr_loop"
    /\ current \in 0..(plen - 1)
    /\ LET amount == rr_amount(procs[current].burst_left, quantum)
       IN  /\ procs' = run_proc(procs, plen, current, amount)
           /\ log' = Append(log, LogEntry(current, amount))
           /\ current_time' = current_time + amount
    /\ pc' = "rr_next"
    /\ UNCHANGED <<heap, bursts0, alg, quantum, i, current, ret, ub>>

\* rr_run, lines 99-104, current inside the array
RrTurn ==
    /\ pc = "rr_loop"
    /\ current \in 0..(plen - 1)
    /\ IF procs[current].burst_left > 0
       THEN LET amount == rr_amount(procs[current].burst_left, quantum)
            IN  /\ procs' = run_proc(procs, plen, current, amount)
                /\ log' = Append(log, LogEntry(current, amount))
                /\ current_time' = current_time + amount
       ELSE UNCHANGED <<procs, log, current_time>>
    /\ pc' = "rr_next"
    /\ UNCHANGED <<heap, bursts0, alg, quantum, i, current, ret, ub>>

\* rr_run, lines 99-104, current outside the array (plen = 0): line 99 reads
\* past the allocation; the read faults or yields some value g, and with
\* g > 0 run_proc writes past the allocation and g or quantum is added.
RrTurnOob ==
    /\ pc = "rr_loop"
    /\ current \notin 0..(plen - 1)
    /\ \/ /\ pc' = "crash"
          /\ ub' = ub \cup {"oob_read"}
          /\ UNCHANGED current_time
       \/ \E g \in 0..MaxGarbage :
            /\ pc' = "rr_next"
            /\ IF g > 0
               THEN /\ current_time + rr_amount(g, quantum) <= MaxOobTime
                    /\ current_time' = current_time + rr_amount(g, quantum)
                    /\ ub' = ub \cup {"oob_read", "oob_write"}
               ELSE /\ UNCHANGED current_time
                    /\ ub' = ub \cup {"oob_read"}
    /\ UNCHANGED <<heap, bursts0, procs, alg, quantum, i, current, ret, log>>

\* rr_run, lines 107-115 with rr_next, plen > 0
RrNext ==
    /\ pc = "rr_next"
    /\ plen > 0
    /\ LET next == rr_next(current, procs, plen)
       IN  IF next = -1
           THEN /\ ret' = current_time
                /\ pc' = "done"
                /\ UNCHANGED current
           ELSE /\ current' = next
                /\ pc' = "rr_loop"
                /\ UNCHANGED ret
    /\ UNCHANGED <<heap, bursts0, procs, alg, quantum, i, current_time, log, ub>>

\* rr_run, line 107 with rr_next line 73, plen = 0: (current + 1) % 0 is
\* undefined; it traps, or rr_next comes back with -1 or with some index.
RrNextDivZero ==
    /\ pc = "rr_next"
    /\ plen = 0
    /\ ub' = ub \cup {"div_by_zero"}
    /\ \/ /\ pc' = "crash"
          /\ UNCHANGED <<ret, current>>
       \/ /\ pc' = "done"
          /\ ret' = current_time
          /\ UNCHANGED current
       \/ /\ pc' = "rr_loop"
          /\ current' \in 0..MaxGarbage
          /\ UNCHANGED ret
    /\ UNCHANGED <<heap, bursts0, procs, alg, quantum, i, current_time, log>>

Next ==
    \/ InitProcsOk
    \/ InitProcsNull
    \/ FcfsStart
    \/ FcfsStep
    \/ FcfsReturn
    \/ RrStart
    \/ RrTurn
    \/ RrTurnOob
    \/ RrNext
    \/ RrNextDivZero

Spec == Init /\ [][Next]_vars

\* the program is one thread that always takes its next step
FairSpec == Spec /\ WF_vars(Next)

\* ---------------------------------------------------------------- properties
Procs == DOMAIN procs

RrOnTable == alg = "rr" /\ plen > 0

Returned == pc = "done"

\* number of run_proc calls made so far with process k as current
RECURSIVE RunsIn(_, _)
RunsIn(l, k) ==
    IF l = << >> THEN 0
    ELSE RunsIn(Tail(l), k) + (IF Head(l).current = k THEN 1 ELSE 0)

Runs(k) == RunsIn(log, k)

\* C1: on a non-empty table of non-negative bursts and with quantum >= 1,
\* rr_run, once entered, eventually returns, and the value it returns is the
\* sum of the initial bursts.
C1_RrReturnsSum ==
    /\ [](RrOnTable /\ Returned => ret = Sum(bursts0))
    /\ (RrOnTable /\ pc = "rr_loop") ~> (Returned /\ ret = Sum(bursts0))

\* rr_run has returned the sum for three live processes, at least one of
\* which needed more than one turn
C1_Witness ==
    /\ RrOnTable /\ Returned
    /\ plen = 3
    /\ \A k \in Procs : bursts0[k] > 0
    /\ Len(log) > plen
    /\ ret = Sum(bursts0)

\* C2: fcfs_run returns the sum of the initial bursts (0 on the empty
\* table) after exactly one run_proc call per process, made in index order
\* 0, 1, 2, ..., each for the process's whole initial burst.
C2_FcfsReturnsSum ==
    (alg = "fcfs" /\ Returned) =>
        /\ ret = Sum(bursts0)
        /\ Len(log) = plen
        /\ \A k \in 0..(plen - 1) :
            /\ log[k + 1].current = k
            /\ log[k + 1].amount = bursts0[k]

\* fcfs_run has returned on three processes with a positive total
C2_Witness ==
    /\ alg = "fcfs" /\ Returned
    /\ plen = 3
    /\ ret > 0
    /\ Len(log) = 3

\* C3: rr_run on an empty table (plen = 0) returns 0 without error: no
\* element of the table is read and no index is computed modulo zero.
C3_RrEmptyReturnsZero ==
    (alg = "rr" /\ plen = 0) =>
        /\ ub = {}
        /\ pc # "crash"
        /\ (Returned => ret = 0)

SingleLive == alg = "rr" /\ plen = 1 /\ bursts0[0] > 0

\* C4: with a single process of burst b > 0, rr_next(0) gives 0 while the
\* process has burst left and -1 once it has none, and rr_run, once entered,
\* eventually returns b.
C4_SingleProcess ==
    /\ [](SingleLive /\ pc = "rr_next" =>
            rr_next(0, procs, plen) = (IF procs[0].burst_left > 0 THEN 0 ELSE -1))
    /\ [](SingleLive /\ Returned => ret = bursts0[0])
    /\ (SingleLive /\ pc = "rr_loop") ~> (SingleLive /\ Returned /\ ret = bursts0[0])

\* the single process has come back from rr_next to a second turn and
\* still has burst left
C4_Witness ==
    /\ SingleLive
    /\ pc = "rr_loop"
    /\ Len(log) = 1
    /\ current = 0
    /\ procs[0].burst_left > 0

\* C5: when fcfs_run returns, and when rr_run returns on a non-empty table,
\* every process has burst_left = 0.
C5_AllCompleteAtReturn ==
    (Returned /\ (alg = "fcfs" \/ RrOnTable)) =>
        \A k \in Procs : procs[k].burst_left = 0

\* rr_run has returned after a process that began with more than the
\* quantum was brought to 0
C5_Witness ==
    /\ RrOnTable /\ Returned
    /\ \E k \in Procs : bursts0[k] > quantum /\ procs[k].burst_left = 0

\* C6: after every run_proc call of an fcfs_run or rr_run, no process has a
\* negative burst_left or a negative wait.
C6_NonNegative ==
    (log # << >>) =>
        \A k \in Procs : procs[k].burst_left >= 0 /\ procs[k].wait >= 0

\* a run_proc call has just taken a process of a three-process table to 0
\* while another process was charged wait
C6_Witness ==
    /\ log # << >>
    /\ plen = 3
    /\ procs[log[Len(log)].current].burst_left = 0
    /\ log[Len(log)].amount > 0
    /\ \E k \in Procs : procs[k].wait > 0

\* a step that made a run_proc call with process k as current
RanNow(k) == log' # log /\ log'[Len(log')].current = k

\* C7: during an fcfs_run or rr_run, a process with burst_left = 0 is not
\* passed to run_proc again and its wait no longer changes; until then its
\* burst_left never increases and its wait never decreases.
C7_CompleteNeverRuns ==
    [][alg' \in {"fcfs", "rr"} /\ pc # "init" =>
        \A k \in Procs :
            /\ procs[k].burst_left = 0 =>
                (~RanNow(k) /\ procs'[k].wait = procs[k].wait)
            /\ procs'[k].burst_left <= procs[k].burst_left
            /\ procs'[k].wait >= procs[k].wait]_vars

\* What holds of the same steps: a process with burst_left = 0 is not passed
\* to run_proc with a positive amount (fcfs_run passes it with amount 0).
CompleteNeverRunsForTime ==
    [][alg' \in {"fcfs", "rr"} /\ pc # "init" =>
        \A k \in Procs :
            /\ procs[k].burst_left = 0 =>
                /\ ~(RanNow(k) /\ log'[Len(log')].amount > 0)
                /\ procs'[k].wait = procs[k].wait
            /\ procs'[k].burst_left <= procs[k].burst_left
            /\ procs'[k].wait >= procs[k].wait]_vars

\* the processes with a positive burst, in index order from k on
RECURSIVE LiveFrom(_, _)
LiveFrom(b, k) ==
    IF k >= Size(b) THEN << >>
    ELSE IF b[k] > 0 THEN <<k>> \o LiveFrom(b, k + 1) ELSE LiveFrom(b, k + 1)

\* reference round-robin over a ready queue: the head runs for
\* min(q, remaining) while every other queued process waits that long, and
\* goes to the back of the queue unless it has finished
RECURSIVE RefRr(_, _, _, _, _)
RefRr(queue, rem, w, time, q) ==
    IF queue = << >> THEN [wait |-> w, time |-> time]
    ELSE LET h == Head(queue)
             a == Min(q, rem[h])
             waiting == {queue[j] : j \in 2..Len(queue)}
             rem2 == [rem EXCEPT ![h] = @ - a]
             w2 == [k \in DOMAIN w |-> IF k \in waiting THEN w[k] + a ELSE w[k]]
             queue2 == IF rem2[h] > 0 THEN Append(Tail(queue), h) ELSE Tail(queue)
         IN  RefRr(queue2, rem2, w2, time + a, q)

RefRrRun(b, q) == RefRr(LiveFrom(b, 0), b, [k \in DOMAIN b |-> 0], 0, q)

\* C8: when rr_run returns on a non-empty table, every process's wait is the
\* total of the slices other processes ran while it was still incomplete, as
\* the reference ready-queue trace computes it; on bursts [5, 3, 8] with
\* quantum 3 the return value is 16 and every burst_left is 0.
C8_RrWaitMatchesReference ==
    (RrOnTable /\ Returned) =>
        /\ \A k \in Procs : procs[k].wait = RefRrRun(bursts0, quantum).wait[k]
        /\ ret = RefRrRun(bursts0, quantum).time
        /\ (bursts0 = Tab(<<5, 3, 8>>) /\ quantum = 3) =>
            /\ ret = 16
            /\ \A k \in Procs : procs[k].burst_left = 0

\* rr_run has returned on bursts [5, 3, 8] with quantum 3, with the waits
\* 6, 3, 8 of the hand-computed trace
C8_Witness ==
    /\ RrOnTable /\ Returned
    /\ bursts0 = Tab(<<5, 3, 8>>)
    /\ quantum = 3
    /\ procs[0].wait = 6 /\ procs[1].wait = 3 /\ procs[2].wait = 8

\* C9: when fcfs_run returns, the wait of process k is the sum of the
\* initial bursts of the processes before it if its own initial burst is
\* positive, and 0 if its initial burst is 0.
C9_FcfsWait ==
    (alg = "fcfs" /\ Returned) =>
        \A k \in Procs :
            procs[k].wait = (IF bursts0[k] > 0 THEN SumTo(bursts0, k) ELSE 0)

\* fcfs_run has returned on bursts [5, 3, 8] with waits 0, 5, 8
C9_Witness ==
    /\ alg = "fcfs" /\ Returned
    /\ bursts0 = Tab(<<5, 3, 8>>)
    /\ procs[0].wait = 0 /\ procs[1].wait = 5 /\ procs[2].wait = 8

Ceil(b, q) == (b + q - 1) \div q

\* C10: in rr_run with quantum q, a process of initial burst b > 0 is
\* passed to run_proc as current at most ceil(b / q) times, a run_proc call
\* leaves the wait of the process it runs unchanged, and no step changes the
\* wait of a process whose burst_left is 0.
C10_RrVisitsBounded ==
    /\ [](RrOnTable =>
            \A k \in Procs :
                bursts0[k] > 0 => Runs(k) <= Ceil(bursts0[k], quantum))
    /\ [][RrOnTable =>
            \A k \in Procs :
                /\ RanNow(k) => procs'[k].wait = procs[k].wait
                /\ procs[k].burst_left = 0 => procs'[k].wait = procs[k].wait]_vars

\* a process whose burst is not a multiple of the quantum has had its
\* ceil(b / q) turns, more than one, and is complete, while another process
\* is still waiting
C10_Witness ==
    /\ RrOnTable
    /\ \E k \in Procs :
        /\ bursts0[k] % quantum # 0
        /\ Runs(k) = Ceil(bursts0[k], quantum)
        /\ Runs(k) > 1
        /\ procs[k].burst_left = 0
        /\ \E j \in Procs : j # k /\ procs[j].burst_left > 0 /\ procs[j].wait > 0

\* the run_proc call a step made, when it made one
LastCall == log'[Len(log')]

\* C11: a run_proc(procs, plen, current, amount) call within its
\* preconditions (current in range, amount >= 1, amount <= burst_left of
\* current) lowers burst_left of current by amount, raises by amount the
\* wait of every other process with burst_left > 0, and changes no other
\* wait, no other burst_left and no pid.
C11_RunProcEffect ==
    [][(/\ log' # log
        /\ LastCall.current \in 0..(plen - 1)
        /\ LastCall.amount >= 1
        /\ LastCall.amount <= procs[LastCall.current].burst_left) =>
        /\ DOMAIN procs' = DOMAIN procs
        /\ \A k \in Procs :
            /\ procs'[k].pid = procs[k].pid
            /\ procs'[k].burst_left =
                (IF k = LastCall.current
                 THEN procs[k].burst_left - LastCall.amount
                 ELSE procs[k].burst_left)
            /\ procs'[k].wait =
                (IF k # LastCall.current /\ procs[k].burst_left > 0
                 THEN procs[k].wait + LastCall.amount
                 ELSE procs[k].wait)]_vars

\* a run_proc call for a positive amount has just been made on a table of
\* three where one of the other processes was complete and kept its wait
\* and the third was live and has been charged
C11_Witness ==
    /\ log # << >>
    /\ plen = 3
    /\ log[Len(log)].amount >= 1
    /\ \E k, j \in Procs :
        /\ k # log[Len(log)].current /\ j # log[Len(log)].current
        /\ procs[k].burst_left = 0 /\ bursts0[k] > 0
        /\ procs[j].burst_left > 0 /\ procs[j].wait > procs[k].wait

\* C12: the table init_procs builds from blen bursts has, at every index i
\* of 0..blen-1, pid = i, burst_left = bursts[i] and wait = 0; and neither
\* fcfs_run nor rr_run changes a pid or the number or order of processes.
C12_InitAndPidsStable ==
    /\ pc = "ready" =>
        /\ DOMAIN procs = 0..(blen - 1)
        /\ \A k \in 0..(blen - 1) :
            procs[k] = [pid |-> k, burst_left |-> bursts0[k], wait |-> 0]
    /\ pc \in {"fcfs_loop", "rr_loop", "rr_next", "done", "crash"} =>
        /\ DOMAIN procs = 0..(blen - 1)
        /\ \A k \in 0..(blen - 1) : procs[k].pid = k

\* a scheduler has returned on a table of three after changing waits
C12_Witness ==
    /\ Returned
    /\ blen = 3
    /\ \E k \in Procs : procs[k].wait > 0
    /\ \A k \in Procs : procs[k].pid = k

\* C13: init_procs on an empty burst array (blen = 0), with storage
\* available, succeeds with an empty table rather than the NULL of an
\* allocation failure; and when it returns NULL no table has been written.
C13_EmptyInitSucceeds ==
    /\ (blen = 0 /\ heap = "ok" /\ pc # "init") => pc # "null"
    /\ pc = "null" => procs = << >>

\* the k-th index after c in circular order over n entries
After(c, k, n) == (c + k) % n

\* what rr_next is to return, stated without the loop: -1 when no process
\* has burst left, else the index at the least circular distance 1..n from c
\* that has burst left (distance n is c itself)
FirstLiveAfter(c, P, n) ==
    IF \A k \in 0..(n - 1) : P[k].burst_left = 0 THEN -1
    ELSE LET d == CHOOSE d \in 1..n :
                    /\ P[After(c, d, n)].burst_left > 0
                    /\ \A e \in 1..(d - 1) : P[After(c, e, n)].burst_left = 0
         IN  After(c, d, n)

\* C14: on a non-empty table and for every current in 0..plen-1, rr_next
\* gives -1 exactly when every burst_left is 0 and otherwise the first index
\* in the circular order current+1, ..., current with burst_left > 0 (current
\* itself when it is the only live process); the rr_next step of rr_run
\* changes no process.
C14_RrNextFirstLive ==
    /\ [](plen > 0 /\ Procs = 0..(plen - 1) =>
            \A c \in 0..(plen - 1) :
                /\ rr_next(c, procs, plen) = FirstLiveAfter(c, procs, plen)
                /\ (rr_next(c, procs, plen) = -1) <=>
                        (\A k \in Procs : procs[k].burst_left = 0))
    /\ [][pc = "rr_next" /\ plen > 0 => procs' = procs]_vars

\* rr_run is about to call rr_next on a table of three in which current is
\* the only process with burst left, so that rr_next gives current again
C14_Witness ==
    /\ RrOnTable
    /\ pc = "rr_next"
    /\ plen = 3
    /\ current = 1
    /\ procs[current].burst_left > 0
    /\ \A k \in Procs : k # current => procs[k].burst_left = 0
    /\ rr_next(current, procs, plen) = current

\* C15: every run_proc call fcfs_run and rr_run make has its target inside
\* the table, amount >= 1 and amount <= the target's burst_left at the call.
C15_CallsWithinPreconditions ==
    [][log' # log =>
        /\ LastCall.current \in 0..(plen - 1)
        /\ LastCall.amount >= 1
        /\ LastCall.amount <= procs[LastCall.current].burst_left]_vars

\* What holds of the same calls: the target is inside the table and
\* 0 <= amount <= its burst_left; rr_run's calls also have amount >= 1.
CallsWithinBurst ==
    [][log' # log =>
        /\ LastCall.current \in 0..(plen - 1)
        /\ LastCall.amount >= 0
        /\ LastCall.amount <= procs[LastCall.current].burst_left
        /\ alg = "rr" => LastCall.amount >= 1]_vars

\* C16: rr_run on a non-empty table, once entered, eventually returns;
\* every run_proc call it makes strictly lowers the burst_left of the process
\* it runs, and it makes at most sum(initial bursts) calls.
C16_RrTerminates ==
    /\ (RrOnTable /\ pc = "rr_loop") ~> (RrOnTable /\ Returned)
    /\ [](RrOnTable => Len(log) <= Sum(bursts0))
    /\ [][RrOnTable /\ log' # log =>
            procs'[LastCall.current].burst_left
                < procs[LastCall.current].burst_left]_vars

\* rr_run has returned after as many run_proc calls as the sum of the
\* bursts of a table of three live processes
C16_Witness ==
    /\ RrOnTable /\ Returned
    /\ plen = 3
    /\ \A k \in Procs : bursts0[k] > 0
    /\ Len(log) = Sum(bursts0)

\* the first index, in index order, of a process with a positive burst
FirstLive(b) == CHOOSE k \in DOMAIN b : b[k] > 0 /\ \A j \in 0..(k - 1) : b[j] = 0

FirstTurnOnZero == RrOnTable /\ log = << >> /\ current = 0 /\ procs[0].burst_left = 0

\* C17: in rr_run, when the process at index 0 has a zero burst, the first
\* turn makes no run_proc call, adds no time and changes no burst_left or
\* wait; the rr_next step that follows moves to the first process in index
\* order with burst_left > 0, or returns 0 when there is none.
C17_ZeroFirstSkipped ==
    /\ [][FirstTurnOnZero /\ pc = "rr_loop" =>
            /\ log' = log
            /\ current_time' = 0
            /\ procs' = procs
            /\ pc' = "rr_next"]_vars
    /\ [][FirstTurnOnZero /\ pc = "rr_next" =>
            IF \A k \in Procs : bursts0[k] = 0
            THEN pc' = "done" /\ ret' = 0
            ELSE /\ pc' = "rr_loop"
                 /\ current' = FirstLive(bursts0)
                 /\ procs' = procs]_vars

\* after skipping a zero burst at index 0 and another at index 1, rr_run is
\* at the top of its loop with current = 2, nothing run and no time added
C17_Witness ==
    /\ RrOnTable
    /\ pc = "rr_loop"
    /\ plen = 3
    /\ bursts0[0] = 0 /\ bursts0[1] = 0 /\ bursts0[2] > 0
    /\ current = 2
    /\ log = << >>
    /\ current_time = 0

\* total of the amounts of the first n run_proc calls
RECURSIVE TimeAfter(_, _)
TimeAfter(l, n) == IF n <= 0 THEN 0 ELSE TimeAfter(l, n - 1) + l[n].amount

\* the time at which process k completed: the clock after its last run
CompletionTime(k) ==
    LET last == CHOOSE n \in 1..Len(log) :
                    /\ log[n].current = k
                    /\ \A m \in (n + 1)..Len(log) : log[m].current # k
    IN  TimeAfter(log, last)

\* C18: at the top of every rr_run loop iteration and at its return, every
\* process still incomplete has wait + (initial burst - burst_left) =
\* current_time; at the return a process of initial burst b > 0 has
\* wait = (its completion time) - b and a zero-burst process has wait 0.
C18_WaitPlusRunIsClock ==
    /\ (RrOnTable /\ pc \in {"rr_loop", "done"}) =>
        \A k \in Procs :
            procs[k].burst_left > 0 =>
                procs[k].wait + (bursts0[k] - procs[k].burst_left) = current_time
    /\ (RrOnTable /\ Returned) =>
        \A k \in Procs :
            procs[k].wait =
                (IF bursts0[k] > 0 THEN CompletionTime(k) - bursts0[k] ELSE 0)

\* at the top of the loop two processes are incomplete, one that has run
\* and one that has only waited, while a third completed earlier
C18_Witness ==
    /\ RrOnTable
    /\ pc = "rr_loop"
    /\ current_time > 0
    /\ \E k, j, d \in Procs :
        /\ procs[k].burst_left > 0 /\ procs[k].burst_left < bursts0[k]
        /\ procs[j].burst_left = bursts0[j] /\ bursts0[j] > 0
        /\ procs[j].wait = current_time
        /\ procs[d].burst_left = 0 /\ bursts0[d] > 0

\* the largest initial burst
MaxOf(b) == CHOOSE m \in {b[k] : k \in DOMAIN b} : \A k \in DOMAIN b : b[k] <= m

\* C19: on a non-empty table, rr_run with a quantum at least the largest
\* initial burst returns the same value and leaves the same burst_left and
\* wait in every process as fcfs_run on the same initial table.
C19_RrLargeQuantumIsFcfs ==
    /\ (RrOnTable /\ Returned /\ quantum >= MaxOf(bursts0)) =>
        /\ ret = fcfs_run(init_procs(bursts0, blen), blen).ret
        /\ procs = fcfs_run(init_procs(bursts0, blen), blen).procs
    /\ (alg = "fcfs" /\ Returned) =>
        /\ ret = fcfs_run(init_procs(bursts0, blen), blen).ret
        /\ procs = fcfs_run(init_procs(bursts0, blen), blen).procs

\* rr_run has returned on three live processes with a quantum equal to the
\* largest burst, the last process having waited for the two before it
C19_Witness ==
    /\ RrOnTable /\ Returned
    /\ plen = 3
    /\ \A k \in Procs : bursts0[k] > 0
    /\ quantum = MaxOf(bursts0)
    /\ procs[2].wait = bursts0[0] + bursts0[1]

====
